---- MODULE Spec2Model ----
(***************************************************************************)
(* State-machine model of the tcptunnel client (package main):             *)
(*   Run / serve / handleConn / duplexCopy / connCopy / shutdown.           *)
(* Every goroutine of the program is a process of the model; its position  *)
(* is a pc variable.  log.Fatalf is logrus' Fatalf: it logs and then calls *)
(* os.Exit(1), which ends the whole process at once.                       *)
(***************************************************************************)
EXTENDS Integers, Sequences, FiniteSets, TLC

\* ------------------------------------------------------------------ bounds
\* connections accepted in a run
MaxConns == 2
\* tunnel sessions established in a run in which payload flows
MaxSessions == 1
\* bytes the peers send in a run
MaxBytes == 2
\* bytes the peers send in a run checked for progress
LiveBytes == 1
\* goroutines other than Run that call c.shutdown()
MaxCallers == 2

Conns == 1..MaxConns
Callers == 1..MaxCallers
Sides == {"acc", "rem"}
Dirs == {"up", "down"}

\* connCopy(rConn, conn, ..) is "up": reads the accepted connection and
\* writes the dialed one; connCopy(conn, rConn, ..) is "down".
Src(d) == IF d = "up" THEN "acc" ELSE "rem"
Dst(d) == IF d = "up" THEN "rem" ELSE "acc"

\* every session is handed the connection of the first dial
DialedFirst(i) == 1

\* lines 154, 163: the connection that dialer.Dial returned for accepted
\* connection i and that serve hands to handleConn together with it; every
\* call of Dial returns a new connection
Dialed(i) == i

\* lines 163, 176, 200-201: the connection on side s of the session of
\* accepted connection i
Conn(i, s) == IF s = "acc" THEN i ELSE Dialed(i)

\* The proxy address of the configuration: empty, a URL the proxy package
\* accepts, a string url.Parse rejects, a URL whose scheme is not registered.
ProxyAddresses == {"", "ok", "malformed", "unsupported"}

\* ------------------------------------------------------------------ errors
\* The error returned by io.Copy: nil, a *net.OpError with its Op tag, or an
\* error of another type.
NoErr == [isNil |-> TRUE, isOpError |-> FALSE, Op |-> ""]
OpError(op) == [isNil |-> FALSE, isOpError |-> TRUE, Op |-> op]
PlainErr == [isNil |-> FALSE, isOpError |-> FALSE, Op |-> ""]

\* What a failed read of the source yields: the net.Conn Read error, bare or
\* wrapped by the destination's ReadFrom.
ReadErrs == {OpError("read"), OpError("readfrom")}
\* What a failed write to the destination yields.
WriteErrs == {OpError("write"), OpError("readfrom"), PlainErr}

VARIABLES
    proxyAddress,   \* c.proxyAddress
    proc,           \* "running" | "exited" (os.Exit(1)) | "panicked"
    exitAt,         \* which Fatalf ended the process
    runPc,          \* position of Run
    listener,       \* "none" | "open" | "closed"
    signal,         \* c.signal: number of buffered signals (capacity 1)
    done,           \* c.done is closed
    doneCloses,     \* number of close(c.done) executed
    errChan,        \* c.errChan: buffered errors (capacity 1)
    wg,             \* c.wg counter
    servePc,        \* position of serve
    nAccepted,      \* number of connections accepted so far
    hPc,            \* handleConn position, per connection
    dPc,            \* duplexCopy position, per connection
    cPc,            \* connCopy position, per connection and direction
    ch,             \* handleConn's ch is closed, per connection
    copyDone,       \* number of buffered copyDone signals, per connection
    closes,         \* number of Close() calls, per connection and side
    peerClosed,     \* the peer has closed its end, per connection and side
    sent,           \* bytes the peer wrote, per connection and side
    nread,          \* how many of them io.Copy has read
    chunk,          \* io.Copy's buffer between Read and Write, per direction
    delivered,      \* bytes written to the destination, per direction
    cErr,           \* io.Copy's result, per direction
    logged,         \* connCopy logged the failure, per direction
    nextByte,       \* payload value of the next byte a peer sends
    waitCh,         \* Run's ch (closed after wg.Wait) is closed
    stopCause,      \* which case of Run's first select fired
    graceWarned,    \* "some goroutines will be stopped forcefully" logged
    acceptErrAt,    \* listener state when Accept failed
    dialFailed,     \* connections whose dial failed
    lateSpawn,      \* connections whose session started after done closed
    ePc             \* extra callers of c.shutdown()

cfgVars == <<proxyAddress>>
procVars == <<proc, exitAt>>
runVars == <<runPc, stopCause, graceWarned, waitCh>>
chanVars == <<signal, done, doneCloses, errChan>>
serveVars == <<servePc, nAccepted, acceptErrAt, dialFailed, lateSpawn>>
taskVars == <<hPc, dPc, cPc, ch, copyDone>>
connVars == <<closes, peerClosed>>
dataVars == <<sent, nread, chunk, delivered, nextByte>>
copyResVars == <<cErr, logged>>
vars == <<proxyAddress, proc, exitAt, runPc, listener, signal, done,
          doneCloses, errChan, wg, servePc, nAccepted, hPc, dPc, cPc, ch,
          copyDone, closes, peerClosed, sent, nread, chunk, delivered, cErr,
          logged, nextByte, waitCh, stopCause, graceWarned, acceptErrAt,
          dialFailed, lateSpawn, ePc>>

\* ---------------------------------------------------------------- newClient
Init ==
    /\ proxyAddress \in ProxyAddresses
    /\ proc = "running"
    /\ exitAt = "none"
    /\ runPc = "parseProxy"
    /\ listener = "none"
    /\ signal = 0
    /\ done = FALSE
    /\ doneCloses = 0
    /\ errChan = <<>>
    /\ wg = 0
    /\ servePc = "none"
    /\ nAccepted = 0
    /\ hPc = [i \in Conns |-> "none"]
    /\ dPc = [i \in Conns |-> "none"]
    /\ cPc = [i \in Conns |-> [d \in Dirs |-> "none"]]
    /\ ch = [i \in Conns |-> FALSE]
    /\ copyDone = [i \in Conns |-> 0]
    /\ closes = [i \in Conns |-> [s \in Sides |-> 0]]
    /\ peerClosed = [i \in Conns |-> [s \in Sides |-> FALSE]]
    /\ sent = [i \in Conns |-> [s \in Sides |-> <<>>]]
    /\ nread = [i \in Conns |-> [s \in Sides |-> 0]]
    /\ chunk = [i \in Conns |-> [d \in Dirs |-> <<>>]]
    /\ delivered = [i \in Conns |-> [d \in Dirs |-> <<>>]]
    /\ cErr = [i \in Conns |-> [d \in Dirs |-> NoErr]]
    /\ logged = [i \in Conns |-> [d \in Dirs |-> FALSE]]
    /\ nextByte = 1
    /\ waitCh = FALSE
    /\ stopCause = "none"
    /\ graceWarned = FALSE
    /\ acceptErrAt = "none"
    /\ dialFailed = {}
    /\ lateSpawn = {}
    /\ ePc = [c \in Callers |-> "idle"]

Alive == proc = "running"

\* ------------------------------------------------------------------- Run
\* url.Parse(c.proxyAddress) fails
ParseFails(addr) == addr = "malformed"
\* proxy.FromURL(proxyURL, dialer) fails
FromURLFails(addr) == addr = "unsupported"

\* lines 78-86 with the parse error ignored
RunParseProxyUnchecked ==
    /\ Alive /\ runPc = "parseProxy"
    /\ runPc' = "listen"
    /\ UNCHANGED <<cfgVars, procVars, stopCause, graceWarned, waitCh, listener,
                   chanVars, wg, serveVars, taskVars, connVars, dataVars,
                   copyResVars, ePc>>

\* lines 78-86: parse the proxy URL; log.Fatalf on a parse error
RunParseProxy ==
    /\ Alive /\ runPc = "parseProxy"
    /\ IF proxyAddress # "" /\ ParseFails(proxyAddress)
          THEN /\ proc' = "exited"
               /\ exitAt' = "parseProxy"
               /\ UNCHANGED runPc
          ELSE /\ runPc' = "listen"
               /\ UNCHANGED procVars
    /\ UNCHANGED <<cfgVars, stopCause, graceWarned, waitCh, listener, chanVars,
                   wg, serveVars, taskVars, connVars, dataVars, copyResVars, ePc>>

\* lines 88-93: net.Listen; log.Fatalf when the address cannot be bound
RunListen ==
    /\ Alive /\ runPc = "listen"
    /\ \E ok \in BOOLEAN :
          IF ok
             THEN /\ listener' = "open"
                  /\ runPc' = "fromURL"
                  /\ UNCHANGED procVars
             ELSE /\ proc' = "exited"
                  /\ exitAt' = "listen"
                  /\ UNCHANGED <<listener, runPc>>
    /\ UNCHANGED <<cfgVars, stopCause, graceWarned, waitCh, chanVars, wg,
                   serveVars, taskVars, connVars, dataVars, copyResVars, ePc>>

\* lines 95-109: build the dialer (log.Fatalf when proxy.FromURL fails), then
\* go c.serve(listener, dialer)
RunFromURL ==
    /\ Alive /\ runPc = "fromURL"
    /\ IF proxyAddress # "" /\ FromURLFails(proxyAddress)
          THEN /\ proc' = "exited"
               /\ exitAt' = "fromURL"
               /\ UNCHANGED <<runPc, servePc>>
          ELSE /\ runPc' = "select1"
               /\ servePc' = "accept"
               /\ UNCHANGED procVars
    /\ UNCHANGED <<cfgVars, stopCause, graceWarned, waitCh, listener, chanVars,
                   wg, nAccepted, acceptErrAt, dialFailed, lateSpawn, taskVars,
                   connVars, dataVars, copyResVars, ePc>>

\* the cases of the select of lines 112-118 that are ready
Select1Ready == (IF signal > 0 THEN {"signal"} ELSE {}) \cup
                (IF done THEN {"done"} ELSE {})

\* lines 112-118: wait for a signal or for c.done
RunSelect1 ==
    /\ Alive /\ runPc = "select1"
    /\ \E c \in Select1Ready :
          /\ stopCause' = c
          /\ signal' = IF c = "signal" THEN signal - 1 ELSE signal
    /\ runPc' = "shutdown"
    /\ UNCHANGED <<cfgVars, procVars, graceWarned, waitCh, listener, done,
                   doneCloses, errChan, wg, serveVars, taskVars, connVars,
                   dataVars, copyResVars, ePc>>

\* -------------------------------------------------------------- shutdown
\* lines 184-188 without the case <-c.done
ShutdownFallsThrough(isClosed) == FALSE

\* lines 184-188: the select of shutdown returns when c.done is closed
ShutdownReturns(isClosed) == isClosed

\* line 189: close(c.done); closing a closed channel panics
CloseDone ==
    IF done
       THEN /\ proc' = "panicked"
            /\ exitAt' = "closeDone"
            /\ UNCHANGED <<done, doneCloses>>
       ELSE /\ done' = TRUE
            /\ doneCloses' = doneCloses + 1
            /\ UNCHANGED procVars

\* line 121 (183-188): Run calls c.shutdown(), its select
RunShutdownSelect ==
    /\ Alive /\ runPc = "shutdown"
    /\ runPc' = IF ShutdownReturns(done) THEN "closeListener" ELSE "closeDone"
    /\ UNCHANGED <<cfgVars, procVars, stopCause, graceWarned, waitCh, listener,
                   chanVars, wg, serveVars, taskVars, connVars, dataVars,
                   copyResVars, ePc>>

\* line 121 (189): Run's c.shutdown() closes c.done
RunShutdownClose ==
    /\ Alive /\ runPc = "closeDone"
    /\ CloseDone
    /\ runPc' = "closeListener"
    /\ UNCHANGED <<cfgVars, stopCause, graceWarned, waitCh, listener, signal,
                   errChan, wg, serveVars, taskVars, connVars, dataVars,
                   copyResVars, ePc>>

\* lines 123-132: listener.Close(), then start the goroutine that waits for
\* the wait group
RunCloseListener ==
    /\ Alive /\ runPc = "closeListener"
    /\ listener' = "closed"
    /\ runPc' = "select2"
    /\ UNCHANGED <<cfgVars, procVars, stopCause, graceWarned, waitCh, chanVars,
                   wg, serveVars, taskVars, connVars, dataVars, copyResVars,
                   ePc>>

\* lines 129-132: c.wg.Wait() returns when the counter is zero; close(ch)
WaiterDone ==
    /\ Alive /\ runPc \in {"select2", "recvErr"}
    /\ ~waitCh
    /\ wg = 0
    /\ waitCh' = TRUE
    /\ UNCHANGED <<cfgVars, procVars, runPc, stopCause, graceWarned, listener,
                   chanVars, wg, serveVars, taskVars, connVars, dataVars,
                   copyResVars, ePc>>

\* line 139: return <-c.errChan.  No statement of the program sends on
\* c.errChan, so the receive returns only when an error is already buffered.
RecvErrChan == IF errChan # <<>> THEN "returned" ELSE "recvErr"

\* lines 134-135 and 139: the wait group finished within the grace period
RunSelect2Done ==
    /\ Alive /\ runPc = "select2"
    /\ waitCh
    /\ runPc' = RecvErrChan
    /\ UNCHANGED <<cfgVars, procVars, stopCause, graceWarned, waitCh, listener,
                   chanVars, wg, serveVars, taskVars, connVars, dataVars,
                   copyResVars, ePc>>

\* lines 136-139: the grace period elapsed first; warn and go on
RunSelect2Timeout ==
    /\ Alive /\ runPc = "select2"
    /\ graceWarned' = TRUE
    /\ runPc' = RecvErrChan
    /\ UNCHANGED <<cfgVars, procVars, stopCause, waitCh, listener, chanVars, wg,
                   serveVars, taskVars, connVars, dataVars, copyResVars, ePc>>

\* main.go line 50: signal.Notify delivers an interrupt into the buffered
\* channel of capacity 1; a signal that finds the buffer full is dropped
Signal ==
    /\ Alive
    /\ signal = 0
    /\ signal' = 1
    /\ UNCHANGED <<cfgVars, procVars, runVars, listener, done, doneCloses,
                   errChan, wg, serveVars, taskVars, connVars, dataVars,
                   copyResVars, ePc>>

\* ------------------------------------------------------------------ serve
\* line 146: listener.Accept() returns a connection
ServeAccept ==
    /\ Alive /\ servePc = "accept"
    /\ listener = "open"
    /\ nAccepted < MaxConns
    /\ nAccepted' = nAccepted + 1
    /\ servePc' = "dial"
    /\ UNCHANGED <<cfgVars, procVars, runVars, listener, chanVars, wg,
                   acceptErrAt, dialFailed, lateSpawn, taskVars, connVars,
                   dataVars, copyResVars, ePc>>

\* lines 147-150: Accept returned an error: log.Fatalf ends the process (the
\* return after it is never reached)
AcceptError ==
    /\ proc' = "exited"
    /\ exitAt' = "accept"
    /\ acceptErrAt' = listener
    /\ UNCHANGED <<servePc, chanVars>>

\* lines 146-150, Accept fails on the listener that Run closed (line 124)
ServeAcceptClosed ==
    /\ Alive /\ servePc = "accept"
    /\ listener = "closed"
    /\ AcceptError
    /\ UNCHANGED <<cfgVars, runVars, listener, wg, nAccepted, dialFailed,
                   lateSpawn, taskVars, connVars, dataVars, copyResVars, ePc>>

\* lines 146-150, Accept fails on the open listener (an error of the system)
ServeAcceptFail ==
    /\ Alive /\ servePc = "accept"
    /\ listener = "open"
    /\ AcceptError
    /\ UNCHANGED <<cfgVars, runVars, listener, wg, nAccepted, dialFailed,
                   lateSpawn, taskVars, connVars, dataVars, copyResVars, ePc>>

\* lines 154-159 with the dial error treated like the accept error
DialFailureFatal(i) ==
    /\ closes' = [closes EXCEPT ![i]["acc"] = @ + 1]
    /\ dialFailed' = dialFailed \cup {i}
    /\ proc' = "exited"
    /\ exitAt' = "dial"
    /\ UNCHANGED <<servePc, wg, hPc, lateSpawn, chanVars>>

\* lines 154-159: the dial failed: close the accepted connection, continue
DialFailure(i) ==
    /\ closes' = [closes EXCEPT ![i]["acc"] = @ + 1]
    /\ dialFailed' = dialFailed \cup {i}
    /\ servePc' = "accept"
    /\ UNCHANGED <<procVars, wg, hPc, lateSpawn, chanVars>>

ServeDialFail ==
    /\ Alive /\ servePc = "dial"
    /\ DialFailure(nAccepted)
    /\ UNCHANGED <<cfgVars, runVars, listener, nAccepted, acceptErrAt, dPc, cPc,
                   ch, copyDone, peerClosed, dataVars, copyResVars, ePc>>

\* the tunnel of connection i is established (the dial succeeded)
Established(i) == hPc[i] # "none"

NumEstablished == Cardinality({i \in Conns : Established(i)})

\* lines 154, 161-163: the dial succeeded: c.wg.Add(1); go c.handleConn(..);
\* the target accepts at most limit dials
ServeDialOK(limit) ==
    /\ Alive /\ servePc = "dial"
    /\ NumEstablished < limit
    /\ wg' = wg + 1
    /\ hPc' = [hPc EXCEPT ![nAccepted] = "start"]
    /\ lateSpawn' = IF done THEN lateSpawn \cup {nAccepted} ELSE lateSpawn
    /\ servePc' = "accept"
    /\ UNCHANGED <<cfgVars, procVars, runVars, listener, chanVars, nAccepted,
                   acceptErrAt, dialFailed, dPc, cPc, ch, copyDone, connVars,
                   dataVars, copyResVars, ePc>>

\* -------------------------------------------------------------- handleConn
\* lines 172-176: ch := make(chan struct{}); c.wg.Add(1); go c.duplexCopy(..)
HandleStart(i) ==
    /\ Alive /\ hPc[i] = "start"
    /\ wg' = wg + 1
    /\ dPc' = [dPc EXCEPT ![i] = "start"]
    /\ hPc' = [hPc EXCEPT ![i] = "select"]
    /\ UNCHANGED <<cfgVars, procVars, runVars, listener, chanVars, serveVars,
                   cPc, ch, copyDone, connVars, dataVars, copyResVars, ePc>>

\* lines 177-180 with a default case
HandleReadyAtOnce(isDone, isCh) == TRUE

\* lines 177-180: the select of handleConn is ready
HandleReady(isDone, isCh) == isDone \/ isCh

\* lines 168-170, 177-181 without the deferred remote.Close()
HandleEndKeepsRemote(i) ==
    /\ Alive /\ hPc[i] = "select"
    /\ HandleReady(done, ch[i])
    /\ closes' = [closes EXCEPT ![i]["acc"] = @ + 1]
    /\ wg' = wg - 1
    /\ hPc' = [hPc EXCEPT ![i] = "finished"]
    /\ UNCHANGED <<cfgVars, procVars, runVars, listener, chanVars, serveVars,
                   dPc, cPc, ch, copyDone, peerClosed, dataVars, copyResVars,
                   ePc>>

\* lines 168-170, 177-181: a case of the select fired; the deferred calls run:
\* remote.Close(), accepted.Close(), c.wg.Done()
HandleEnd(i) ==
    /\ Alive /\ hPc[i] = "select"
    /\ HandleReady(done, ch[i])
    /\ closes' = [c \in Conns |-> [s \in Sides |->
                      IF c = Conn(i, s) THEN closes[c][s] + 1
                                        ELSE closes[c][s]]]
    /\ wg' = wg - 1
    /\ hPc' = [hPc EXCEPT ![i] = "finished"]
    /\ UNCHANGED <<cfgVars, procVars, runVars, listener, chanVars, serveVars,
                   dPc, cPc, ch, copyDone, peerClosed, dataVars, copyResVars,
                   ePc>>

\* -------------------------------------------------------------- duplexCopy
\* lines 197-201: copyDone := make(chan struct{}, 2); c.wg.Add(2); go connCopy
\* twice
DuplexStart(i) ==
    /\ Alive /\ dPc[i] = "start"
    /\ wg' = wg + 2
    /\ cPc' = [cPc EXCEPT ![i] = [d \in Dirs |-> "read"]]
    /\ dPc' = [dPc EXCEPT ![i] = "wait"]
    /\ UNCHANGED <<cfgVars, procVars, runVars, listener, chanVars, serveVars,
                   hPc, ch, copyDone, connVars, dataVars, copyResVars, ePc>>

\* line 203 not waiting at all
DuplexReadyAtOnce(n) == n >= 0

\* line 203 waiting for both copies
DuplexReadyBoth(n) == n > 1

\* line 203: <-copyDone can receive
DuplexReady(n) == n > 0

\* lines 193-196, 203: one receive from copyDone, then the deferred calls:
\* close(ch), c.wg.Done()
DuplexEnd(i) ==
    /\ Alive /\ dPc[i] = "wait"
    /\ DuplexReady(copyDone[i])
    /\ copyDone' = [copyDone EXCEPT ![i] = @ - 1]
    /\ ch' = [ch EXCEPT ![i] = TRUE]
    /\ wg' = wg - 1
    /\ dPc' = [dPc EXCEPT ![i] = "finished"]
    /\ UNCHANGED <<cfgVars, procVars, runVars, listener, chanVars, serveVars,
                   hPc, cPc, connVars, dataVars, copyResVars, ePc>>

\* ---------------------------------------------------------------- connCopy
\* lines 64-69 without the case of "read"
SuppressedReadFromOnly(err) == err.isOpError /\ err.Op = "readfrom"

\* lines 64-69: the error is a *net.OpError whose Op is "readfrom" or "read"
Suppressed(err) == err.isOpError /\ err.Op \in {"readfrom", "read"}

\* lines 63-74: connCopy logs "failed to copy connection"
LogsFailure(err) == ~err.isNil /\ ~Suppressed(err)

\* lines 58-75 with c.wg.Done() skipped when io.Copy returned an error
ConnCopyEndKeepsCount(i, d, err) ==
    /\ cErr' = [cErr EXCEPT ![i][d] = err]
    /\ logged' = [logged EXCEPT ![i][d] = LogsFailure(err)]
    /\ copyDone' = [copyDone EXCEPT ![i] = @ + 1]
    /\ wg' = IF err.isNil THEN wg - 1 ELSE wg
    /\ cPc' = [cPc EXCEPT ![i][d] = "finished"]

\* lines 58-75 after io.Copy returned err: classify, log, then the deferred
\* calls: copyDone <- struct{}{} (buffered, capacity 2) and c.wg.Done()
ConnCopyEnd(i, d, err) ==
    /\ cErr' = [cErr EXCEPT ![i][d] = err]
    /\ logged' = [logged EXCEPT ![i][d] = LogsFailure(err)]
    /\ copyDone' = [copyDone EXCEPT ![i] = @ + 1]
    /\ wg' = wg - 1
    /\ cPc' = [cPc EXCEPT ![i][d] = "finished"]

\* the bytes of the source that io.Copy has not read yet
Avail(i, d) == Len(sent[Conn(i, Src(d))][Src(d)])
                   - nread[Conn(i, Src(d))][Src(d)]

\* line 62, io.Copy: src.Read returns k bytes
CopyRead(i, d) ==
    /\ Alive /\ cPc[i][d] = "read"
    /\ closes[Conn(i, Src(d))][Src(d)] = 0
    /\ \E k \in 1..Avail(i, d) :
          /\ chunk' = [chunk EXCEPT ![i][d] =
                          SubSeq(sent[Conn(i, Src(d))][Src(d)],
                                 nread[Conn(i, Src(d))][Src(d)] + 1,
                                 nread[Conn(i, Src(d))][Src(d)] + k)]
          /\ nread' = [nread EXCEPT ![Conn(i, Src(d))][Src(d)] = @ + k]
    /\ cPc' = [cPc EXCEPT ![i][d] = "write"]
    /\ UNCHANGED <<cfgVars, procVars, runVars, listener, chanVars, wg,
                   serveVars, hPc, dPc, ch, copyDone, connVars, sent, delivered,
                   nextByte, copyResVars, ePc>>

\* line 62, io.Copy: src.Read returns io.EOF (the peer closed and everything
\* was read): io.Copy returns nil
CopyEOF(i, d) ==
    /\ Alive /\ cPc[i][d] = "read"
    /\ closes[Conn(i, Src(d))][Src(d)] = 0
    /\ peerClosed[Conn(i, Src(d))][Src(d)]
    /\ Avail(i, d) = 0
    /\ ConnCopyEnd(i, d, NoErr)
    /\ UNCHANGED <<cfgVars, procVars, runVars, listener, chanVars, serveVars,
                   hPc, dPc, ch, connVars, dataVars, ePc>>

\* line 62, io.Copy: src.Read fails because this process closed the source
CopyReadErr(i, d) ==
    /\ Alive /\ cPc[i][d] = "read"
    /\ closes[Conn(i, Src(d))][Src(d)] > 0
    /\ \E e \in ReadErrs : ConnCopyEnd(i, d, e)
    /\ UNCHANGED <<cfgVars, procVars, runVars, listener, chanVars, serveVars,
                   hPc, dPc, ch, connVars, dataVars, ePc>>

\* a write that repeats the chunk
WriteOutTwice(out, buf) == out \o buf \o buf

\* what dst.Write adds to the bytes delivered so far
WriteOut(out, buf) == out \o buf

\* line 62, io.Copy: dst.Write writes the chunk
CopyWrite(i, d) ==
    /\ Alive /\ cPc[i][d] = "write"
    /\ closes[Conn(i, Dst(d))][Dst(d)] = 0
    /\ delivered' = [delivered EXCEPT ![i][d] = WriteOut(@, chunk[i][d])]
    /\ chunk' = [chunk EXCEPT ![i][d] = <<>>]
    /\ cPc' = [cPc EXCEPT ![i][d] = "read"]
    /\ UNCHANGED <<cfgVars, procVars, runVars, listener, chanVars, wg,
                   serveVars, hPc, dPc, ch, copyDone, connVars, sent, nread,
                   nextByte, copyResVars, ePc>>

\* line 62, io.Copy: dst.Write fails (the destination was closed here, or by
\* its peer)
CopyWriteErr(i, d) ==
    /\ Alive /\ cPc[i][d] = "write"
    /\ \/ closes[Conn(i, Dst(d))][Dst(d)] > 0
       \/ peerClosed[Conn(i, Dst(d))][Dst(d)]
    /\ \E e \in WriteErrs : ConnCopyEnd(i, d, e)
    /\ UNCHANGED <<cfgVars, procVars, runVars, listener, chanVars, serveVars,
                   hPc, dPc, ch, connVars, dataVars, ePc>>

\* ------------------------------------------------------------------ peers
\* the peer of side s writes one byte; the peers write limit bytes in all
PeerSend(i, s, limit) ==
    /\ Alive /\ Established(i)
    /\ closes[i][s] = 0 /\ ~peerClosed[i][s]
    /\ nextByte <= limit
    /\ sent' = [sent EXCEPT ![i][s] = Append(@, nextByte)]
    /\ nextByte' = nextByte + 1
    /\ UNCHANGED <<cfgVars, procVars, runVars, listener, chanVars, wg,
                   serveVars, taskVars, connVars, nread, chunk, delivered,
                   copyResVars, ePc>>

\* the peer of side s closes its end
PeerClose(i, s) ==
    /\ Alive /\ Established(i)
    /\ closes[i][s] = 0 /\ ~peerClosed[i][s]
    /\ peerClosed' = [peerClosed EXCEPT ![i][s] = TRUE]
    /\ UNCHANGED <<cfgVars, procVars, runVars, listener, chanVars, wg,
                   serveVars, taskVars, closes, dataVars, copyResVars, ePc>>

\* ------------------------------------------- further callers of c.shutdown()
\* lines 183-188: a caller other than Run enters c.shutdown()
ExtShutdownSelect(c) ==
    /\ Alive /\ ePc[c] = "idle"
    /\ ePc' = [ePc EXCEPT ![c] = IF ShutdownReturns(done) THEN "ret"
                                                           ELSE "close"]
    /\ UNCHANGED <<cfgVars, procVars, runVars, listener, chanVars, wg,
                   serveVars, taskVars, connVars, dataVars, copyResVars>>

\* line 189: that caller closes c.done
ExtShutdownClose(c) ==
    /\ Alive /\ ePc[c] = "close"
    /\ CloseDone
    /\ ePc' = [ePc EXCEPT ![c] = "ret"]
    /\ UNCHANGED <<cfgVars, runVars, listener, signal, errChan, wg, serveVars,
                   taskVars, connVars, dataVars, copyResVars>>

\* ---------------------------------------------------------- specifications
RunStep ==
    \/ RunParseProxy
    \/ RunListen
    \/ RunFromURL
    \/ RunSelect1
    \/ RunShutdownSelect
    \/ RunShutdownClose
    \/ RunCloseListener
    \/ WaiterDone
    \/ RunSelect2Done
    \/ RunSelect2Timeout

ServeStep(limit) ==
    \/ ServeAccept
    \/ ServeAcceptClosed
    \/ ServeAcceptFail
    \/ ServeDialFail
    \/ ServeDialOK(limit)

\* the steps of a session that move no payload
SessionStep(i) ==
    \/ HandleStart(i)
    \/ HandleEnd(i)
    \/ DuplexStart(i)
    \/ DuplexEnd(i)
    \/ \E d \in Dirs : CopyEOF(i, d) \/ CopyReadErr(i, d)

\* the steps of a session that move payload
PayloadStep(i) ==
    \E d \in Dirs : CopyRead(i, d) \/ CopyWrite(i, d) \/ CopyWriteErr(i, d)

\* The whole program, its peers sending payload.
Next ==
    \/ RunStep
    \/ ServeStep(MaxSessions)
    \/ Signal
    \/ \E i \in Conns : SessionStep(i) \/ PayloadStep(i)
    \/ \E i \in Conns, s \in Sides : PeerSend(i, s, MaxBytes) \/ PeerClose(i, s)

Spec == Init /\ [][Next]_vars

\* Goroutines are scheduled fairly, pending I/O completes, the timer of the
\* grace period fires.  Signals, peers, the dial and failures of the system
\* are free.
Fairness ==
    /\ WF_vars(RunStep)
    /\ WF_vars(ServeAcceptClosed)
    /\ \A i \in Conns : WF_vars(SessionStep(i) \/ PayloadStep(i))

\* The whole program under fair scheduling, its peers sending less payload.
NextLive ==
    \/ RunStep
    \/ ServeStep(MaxSessions)
    \/ Signal
    \/ \E i \in Conns : SessionStep(i) \/ PayloadStep(i)
    \/ \E i \in Conns, s \in Sides : PeerSend(i, s, LiveBytes) \/ PeerClose(i, s)

FairLive == Init /\ [][NextLive]_vars /\ Fairness

\* The whole program with sessions running concurrently; the peers send no
\* payload, they only close.
NextConc ==
    \/ RunStep
    \/ ServeStep(MaxConns)
    \/ Signal
    \/ \E i \in Conns : SessionStep(i)
    \/ \E i \in Conns, s \in Sides : PeerClose(i, s)

SpecConc == Init /\ [][NextConc]_vars

\* The program with further goroutines that call c.shutdown(); no payload.
NextShutdown ==
    \/ RunStep
    \/ ServeStep(MaxSessions)
    \/ Signal
    \/ \E i \in Conns : SessionStep(i)
    \/ \E i \in Conns, s \in Sides : PeerClose(i, s)
    \/ \E c \in Callers : ExtShutdownSelect(c) \/ ExtShutdownClose(c)

SpecShutdown == Init /\ [][NextShutdown]_vars

\* The program while Running (no signal arrives, Accept does not fail), with
\* sessions running concurrently and their peers sending payload.
NextPair ==
    \/ RunParseProxy
    \/ RunListen
    \/ RunFromURL
    \/ ServeAccept
    \/ ServeDialFail
    \/ ServeDialOK(MaxConns)
    \/ \E i \in Conns : SessionStep(i) \/ PayloadStep(i)
    \/ \E i \in Conns, s \in Sides : PeerSend(i, s, MaxBytes) \/ PeerClose(i, s)

SpecPair == Init /\ [][NextPair]_vars

\* ================================================================ claims
\* every task of the session of connection i has ended
TasksEnded(i) ==
    /\ hPc[i] = "finished" /\ dPc[i] = "finished"
    /\ \A d \in Dirs : cPc[i][d] = "finished"

\* the session of connection i closed both of its connections
BothClosed(i) == \A s \in Sides : closes[i][s] > 0

\* C8: with a proxy address that url.Parse rejects, the listener is never
\* opened, the accept loop never runs and no connection or session exists.
C8_MalformedProxyNeverListens ==
    proxyAddress = "malformed" =>
        /\ listener = "none"
        /\ servePc = "none"
        /\ nAccepted = 0
        /\ \A i \in Conns : ~Established(i)

C8_Witness ==
    proxyAddress = "malformed" /\ proc = "exited" /\ exitAt = "parseProxy"

\* C9 as claimed: whenever building the dialer fails (malformed URL or
\* unsupported scheme), the listener is not open in any state.
C9_DialerFailureNeverListens ==
    proxyAddress \in {"malformed", "unsupported"} => listener = "none"

\* C4 as claimed: after a shutdown started by the signal, with no failure
\* of Accept on the open listener, the process does not end with a fatal
\* outcome and no terminal error is recorded.
C4_SignalShutdownSucceeds ==
    (stopCause = "signal" /\ acceptErrAt # "open") =>
        (proc # "exited" /\ errChan = <<>>)

\* C5 as claimed: an accept error while Running is recorded as the terminal
\* error and the supervisor goes on to the graceful shutdown.
C5_AcceptErrorRecorded ==
    (acceptErrAt = "open" /\ stopCause = "none") =>
        (errChan # <<>> /\ proc = "running")

\* C7: the step in which a dial fails closes the accepted connection once,
\* leaves the counter, the stop notification and the listener alone, starts
\* no session for it, keeps the process running and returns serve to Accept.
C7_DialFailureNonFatal ==
    [][(servePc = "dial" /\ nAccepted \in dialFailed') =>
          /\ closes'[nAccepted]["acc"] = 1
          /\ closes'[nAccepted]["rem"] = 0
          /\ wg' = wg
          /\ done' = done
          /\ listener' = listener
          /\ hPc'[nAccepted] = "none"
          /\ proc' = "running"
          /\ servePc' = "accept"]_vars

\* a dial failed and a later connection got its session
C7_Witness ==
    \E i, j \in Conns : i < j /\ i \in dialFailed /\ Established(j)

\* C1 (amended): in both directions of every session the bytes delivered are
\* at all times a prefix of the bytes sent: in order, nothing duplicated,
\* nothing altered, nothing from elsewhere.
C1_RelayInOrder ==
    \A i \in Conns, d \in Dirs :
        /\ Len(delivered[i][d]) <= Len(sent[i][Src(d)])
        /\ delivered[i][d] = SubSeq(sent[i][Src(d)], 1, Len(delivered[i][d]))

C1_Witness ==
    \E i \in Conns, d \in Dirs :
        /\ Len(delivered[i][d]) >= 2
        /\ delivered[i][d] = sent[i][Src(d)]

\* C1 as claimed: every byte sent is delivered; when the session is over,
\* each direction has delivered all that was sent.
C1_AllDelivered ==
    \A i \in Conns, d \in Dirs :
        TasksEnded(i) => delivered[i][d] = sent[i][Src(d)]

\* C2 as claimed: after shutdown was initiated, every session that was
\* active then closes both of its connections and the counter reaches zero;
\* so when the process has ended (no failure of Accept on the open listener
\* being involved, no session started after the stop notification), all of
\* them are closed and the counter is zero.
C2_ShutdownClosesAll ==
    (done /\ proc # "running" /\ acceptErrAt # "open" /\ lateSpawn = {}) =>
        (wg = 0 /\ \A i \in Conns : Established(i) => BothClosed(i))

\* C3 as claimed: once the shutdown trigger was received, Run eventually
\* returns (executions in which Accept fails on the open listener aside).
C3_RunReturns ==
    (stopCause # "none") ~> (runPc = "returned" \/ acceptErrAt = "open")

\* C10: after the peer of one side of an established session closed, the
\* session comes to its end: all four tasks have ended and both connections
\* are closed (or the whole process has ended); and a directional copy whose
\* pending read is ended by an error never logs that error.
C10_PeerCloseEndsSession ==
    /\ \A i \in Conns :
          (Established(i) /\ \E s \in Sides : peerClosed[i][s])
              ~> ((TasksEnded(i) /\ BothClosed(i)) \/ proc # "running")
    /\ [][\A i \in Conns, d \in Dirs :
             (cPc[i][d] = "read" /\ cPc'[i][d] = "finished"
                 /\ ~cErr'[i][d].isNil) => ~logged'[i][d]]_vars

\* the peer closed one side, the other direction was unblocked by an error,
\* nothing was logged, and the session is over
C10_Witness ==
    \E i \in Conns, d \in Dirs :
        /\ peerClosed[i][Src(d)] /\ ~peerClosed[i][Dst(d)]
        /\ TasksEnded(i) /\ BothClosed(i)
        /\ cErr[i][d].isNil
        /\ cErr[i][IF d = "up" THEN "down" ELSE "up"] \in ReadErrs
        /\ ~logged[i]["up"] /\ ~logged[i]["down"]
        /\ ~done

\* C6: a call of shutdown that starts when the stop notification has already
\* fired returns at once: done stays closed, it is not closed again, nothing
\* panics and nothing else changes; and done is closed at most once.
C6_SecondShutdownNoOp ==
    /\ [](doneCloses <= 1)
    /\ [][\A c \in Callers :
             (done /\ ePc[c] = "idle" /\ ePc'[c] # "idle") =>
                 /\ ePc'[c] = "ret"
                 /\ \A o \in Callers \ {c} : ePc'[o] = ePc[o]
                 /\ UNCHANGED <<cfgVars, procVars, runVars, listener, chanVars,
                                wg, serveVars, taskVars, connVars, dataVars,
                                copyResVars>>]_vars
    /\ [][(done /\ runPc = "shutdown" /\ runPc' # "shutdown") =>
             /\ runPc' = "closeListener"
             /\ UNCHANGED <<cfgVars, procVars, stopCause, graceWarned, waitCh,
                            listener, chanVars, wg, serveVars, taskVars,
                            connVars, dataVars, copyResVars, ePc>>]_vars

\* Run and every further caller have called shutdown and returned; one of
\* them closed done, the others found it closed
C6_Witness ==
    /\ Alive /\ done /\ doneCloses = 1
    /\ \A c \in Callers : ePc[c] = "ret"
    /\ runPc \in {"closeListener", "select2", "recvErr"}

\* the bytes of a sequence
Range(q) == {q[k] : k \in 1..Len(q)}

\* C11: with sessions established concurrently, every byte delivered in a
\* direction of a session was sent on the source connection of that same
\* session and on no connection of another session; and two sessions never
\* use the same dialed connection.
C11_NoCrossDelivery ==
    /\ \A i, j \in Conns :
          (i # j /\ Established(i) /\ Established(j)) =>
              Conn(i, "rem") # Conn(j, "rem")
    /\ \A i \in Conns, d \in Dirs :
          /\ Range(delivered[i][d]) \subseteq Range(sent[i][Src(d)])
          /\ \A j \in Conns \ {i}, s \in Sides :
                Range(delivered[i][d]) \cap Range(sent[j][s]) = {}

\* two sessions run at the same time, each has relayed a byte of its own
C11_Witness ==
    \E i, j \in Conns :
        /\ i # j
        /\ \A d \in Dirs : cPc[i][d] \in {"read", "write"}
        /\ \A d \in Dirs : cPc[j][d] \in {"read", "write"}
        /\ \E d \in Dirs : delivered[i][d] # <<>>
        /\ \E d \in Dirs : delivered[j][d] # <<>>

\* the tasks that registered with c.wg (Add ran) and have not finished (their
\* deferred Done has not run): sessions, duplex copiers, directional copies
UnfinishedTasks ==
    Cardinality({i \in Conns : hPc[i] \in {"start", "select"}})
    + Cardinality({i \in Conns : dPc[i] \in {"start", "wait"}})
    + Cardinality({t \in Conns \X Dirs : cPc[t[1]][t[2]] \in {"read", "write"}})

\* C12: the counter of c.wg is never negative and is in every state the
\* number of registered tasks that have not finished; so every task takes
\* its one decrement on whichever path it ends.
C12_CounterMatchesTasks ==
    /\ wg >= 0
    /\ wg = UnfinishedTasks

\* after the stop notification a session has ended, one of its copies with
\* an error and one without, and the counter is back at zero
C12_Witness ==
    \E i \in Conns, d \in Dirs :
        /\ done /\ TasksEnded(i)
        /\ ~cErr[i][d].isNil
        /\ cErr[i][IF d = "up" THEN "down" ELSE "up"].isNil
        /\ wg = 0

\* C13: no connection is closed twice; a session that has ended has closed
\* both of its connections, once each, on whichever path it ended; a session
\* that has not ended has closed neither; a connection whose dial failed was
\* closed once by serve and has no dialed connection to close.
C13_ClosedExactlyOnce ==
    /\ \A i \in Conns, s \in Sides : closes[i][s] <= 1
    /\ \A i \in Conns :
          hPc[i] = "finished" => \A s \in Sides : closes[i][s] = 1
    /\ \A i \in Conns :
          hPc[i] \in {"start", "select"} => \A s \in Sides : closes[i][s] = 0
    /\ \A i \in dialFailed :
          /\ hPc[i] = "none"
          /\ closes[i]["acc"] = 1
          /\ closes[i]["rem"] = 0

\* before any stop notification a dial failed and its accepted connection
\* was closed, and a session ended because a copy failed on a write and
\* closed both of its connections
C13_Witness ==
    \E i, j \in Conns, d \in Dirs :
        /\ ~done
        /\ j \in dialFailed /\ closes[j]["acc"] = 1
        /\ hPc[i] = "finished"
        /\ cErr[i][d] \in WriteErrs \ ReadErrs
        /\ \A s \in Sides : closes[i][s] = 1

\* C14 as claimed: while Run waits in the select of lines 134-138 (the stop
\* notification fired, the listener closed), no step ends the process, and
\* the wait is left only when the wait group was seen at zero or when the
\* grace period elapsed.
C14_WaitEndsByCounterOrGrace ==
    [][(Alive /\ runPc = "select2") =>
          /\ proc' = "running"
          /\ runPc' # "select2" => (waitCh \/ graceWarned')]_vars

\* C15: the duplex copier has reported completion (closed ch) only if one of
\* its directional copies has ended; and as soon as one has ended, the
\* copier's report is ready to happen, whether or not the other has ended.
C15_ReportsOnFirstCopy ==
    \A i \in Conns :
        /\ ch[i] => \E d \in Dirs : cPc[i][d] = "finished"
        /\ (Alive /\ dPc[i] = "wait" /\ \E d \in Dirs : cPc[i][d] = "finished")
              => ENABLED DuplexEnd(i)

\* the copier reported while its second copy was still running, before any
\* connection of the session was closed
C15_Witness ==
    \E i \in Conns, d \in Dirs :
        /\ ch[i] /\ dPc[i] = "finished"
        /\ cPc[i][d] = "finished"
        /\ cPc[i][IF d = "up" THEN "down" ELSE "up"] = "read"
        /\ hPc[i] = "select" /\ ~done

\* C16 (amended): a directional copy has started only for a connection whose
\* dial succeeded (its session exists, its copier was started by it), and a
\* session has closed a connection only if its duplex copier has reported
\* completion or the stop notification has fired.
C16_CopiesAfterDialCloseAfterReportOrStop ==
    \A i \in Conns :
        /\ (\E d \in Dirs : cPc[i][d] # "none") =>
              (Established(i) /\ i \notin dialFailed /\ dPc[i] # "none")
        /\ dPc[i] # "none" => hPc[i] \in {"select", "finished"}
        /\ (Established(i) /\ \E s \in Sides : closes[i][s] > 0) =>
              (ch[i] \/ done)

\* the stop notification fired and a session that had started before it
\* closed both connections while its copier had not reported and both copies
\* were still reading
C16_Witness ==
    \E i \in Conns :
        /\ i \notin lateSpawn
        /\ hPc[i] = "finished" /\ BothClosed(i)
        /\ done /\ ~ch[i]
        /\ \A d \in Dirs : cPc[i][d] = "read"

\* C16 as claimed: a session has closed a connection only if its duplex
\* copier has reported completion (shown for the sessions that started
\* before the stop notification).
C16_CloseOnlyAfterReport ==
    \A i \in Conns \ lateSpawn :
        (Established(i) /\ \E s \in Sides : closes[i][s] > 0) => ch[i]

\* C17: in the step in which a directional copy ends, the failure is logged
\* exactly when io.Copy returned an error that is not a *net.OpError with Op
\* "read" or "readfrom"; and whatever it returned, the step sends one
\* completion signal on copyDone, decrements the counter by one, keeps the
\* process running and leaves the stop notification alone.
C17_CopyEndLogsAndCompletes ==
    [][\A i \in Conns, d \in Dirs :
          (cPc[i][d] # "finished" /\ cPc'[i][d] = "finished") =>
              /\ logged'[i][d] <=>
                    /\ cErr'[i][d] # NoErr
                    /\ ~(/\ cErr'[i][d].isOpError
                         /\ cErr'[i][d].Op \in {"read", "readfrom"})
              /\ copyDone'[i] = copyDone[i] + 1
              /\ wg' = wg - 1
              /\ proc' = "running"
              /\ done' = done /\ doneCloses' = doneCloses]_vars

\* before any stop notification one copy of a session ended with a write
\* error and logged it, the other ended with a read error and logged nothing
C17_Witness ==
    \E i \in Conns, d \in Dirs :
        /\ Alive /\ ~done
        /\ cPc[i][d] = "finished"
        /\ cErr[i][d] = OpError("write") /\ logged[i][d]
        /\ cPc[i][IF d = "up" THEN "down" ELSE "up"] = "finished"
        /\ cErr[i][IF d = "up" THEN "down" ELSE "up"] = OpError("read")
        /\ ~logged[i][IF d = "up" THEN "down" ELSE "up"]

\* C18 as claimed: while the dial for an accepted connection is pending (and
\* the listener is open, the process running, a further client connecting),
\* the next inbound connection can be accepted.
C18_AcceptWhileDialPending ==
    (Alive /\ servePc = "dial" /\ listener = "open" /\ nAccepted < MaxConns)
        => ENABLED ServeAccept

\* C19 as claimed: however the calls of c.shutdown() interleave, c.done is
\* closed at most once and no caller executes close(c.done) on the closed
\* channel (which panics).
C19_NoSecondClose ==
    /\ doneCloses <= 1
    /\ proc # "panicked"

\* C20 as claimed: once c.done is closed no step starts a session (serve
\* neither adds to the counter nor spawns handleConn), and once Run's wait
\* has seen the counter at zero no step raises it.
C20_NoSessionAfterStop ==
    [][/\ done => \A i \in Conns : hPc[i] = "none" => hPc'[i] = "none"
       /\ waitCh => wg' <= wg]_vars

====
